---- MODULE Spec2Model ----
(***************************************************************************)
(* Model of three components of vagents.                                   *)
(*                                                                         *)
(* 1. vagents.core.executor.LMExecutor (specifications Spec, LiveSpec): a  *)
(* priority ordered task executor built on asyncio.  The executor owns a   *)
(* waiting priority queue, a running queue, a task -> future map and a     *)
(* background run loop task.  The asyncio tasks handed to enqueue() and    *)
(* the callers holding the returned futures are the environment.           *)
(*                                                                         *)
(* asyncio is single threaded and cooperative: every action below is the   *)
(* code that runs between two suspension points.  A running event loop is  *)
(* assumed (the executor is constructed inside a coroutine), and           *)
(* asyncio.wait_for awaits the queue get inline (Python 3.12 and later),   *)
(* so popping an entry and testing task.done() is one step.                *)
(*                                                                         *)
(* 2. vagents.executor.executor.GraphExecutor with the nodes of            *)
(* vagents.executor.node and the pass of vagents.executor.optimizers       *)
(* (specification GraphSpec): run() calls made on one GraphExecutor from   *)
(* different threads, interleaved node by node.                            *)
(*                                                                         *)
(* 3. vagents.executor.scheduler.VScheduler (specification SchedSpec):     *)
(* dispatch() batches, add_request() calls and a responses() reader on one *)
(* event loop, with the GraphExecutor runs offloaded to worker threads.    *)
(*                                                                         *)
(* 4. vagents.executor.optimizers.optimize_await_sequences, one loop pass   *)
(* at a time, called repeatedly on a graph (specification OptSpec).        *)
(*                                                                         *)
(* 5. vagents.executor.executor.has_next with a reader of the iterator it  *)
(* peeks into (specification HasNextSpec).                                 *)
(*                                                                         *)
(* Each specification constructs one component and leaves the variables of *)
(* the others at NotCreated.                                               *)
(***************************************************************************)
EXTENDS Integers, FiniteSets, Sequences, TLC

\* ------------------------------------------------------------------ bounds
NumTasks == 3
MaxEnqueues == 3
MaxLoops == 2
MaxPriority == 2
MaxStops == 1
MaxCancels == 1

Tasks == 1..NumTasks
Futures == 1..MaxEnqueues
Loops == 1..MaxLoops
Priorities == 1..MaxPriority

\* ------------------------------------------------------------- task states
\* An asyncio.Task / asyncio.Future is pending, or done with one outcome.
Pending == <<"pending", 0>>
Cancelled == <<"cancelled", 0>>
Raised(e) == <<"exception", e>>
Returned(v) == <<"value", v>>
NotCreated == <<"none", 0>>

\* The work of task t returns the value t or raises the exception t, so the
\* outcomes of different tasks can be told apart.
OutcomesOf(t) == {Cancelled, Raised(t), Returned(t)}

Outcomes == UNION {OutcomesOf(t) : t \in Tasks}

VARIABLES
    waiting,        \* self._waiting: set of (priority, counter, task)
    running,        \* self._running: set of (priority, counter, task)
    task_futures,   \* self._task_futures: task -> future (0 = absent)
    executor_task,  \* self._executor_task: a run loop id, 0 = None
    task_counter,   \* self._task_counter
    pc,             \* per run loop task: "none", "idle", "awaiting", "done"
    cur,            \* per run loop task: the entry it is awaiting
    mustCancel,     \* per run loop task: CancelledError is thrown at its next step
    tstate,         \* per asyncio task given to enqueue: Pending or its outcome
    fstate,         \* per future returned by enqueue: NotCreated, Pending or outcome
    ftask,          \* history: the task a future was created for (0 = none)
    fentry,         \* history: the queue entry made together with the future
    fby,            \* history: who resolved the future
    signals,        \* history: number of outcomes applied to the future
    nfutures,       \* history: number of enqueue calls so far
    wasRun,         \* history: the task entered the running queue
    cancelWaiting,  \* history: task.cancel() was called while the task waited
    stopped,        \* history: stop() was called and enqueue has not been since
    nstops,         \* history: number of stop() calls
    ncancels        \* history: number of cancel() calls made by callers

vars == <<waiting, running, task_futures, executor_task, task_counter, pc, cur,
          mustCancel, tstate, fstate, ftask, fentry, fby, signals,
          nfutures, wasRun, cancelWaiting, stopped, nstops, ncancels>>

\* GraphExecutor and the run() calls made on it.
VARIABLES
    graph,          \* self.graph: [entry, nodes]
    env,            \* the dict objects: env[0] is self.base_ctx, env[th] the
                    \* dict made by run call th for its current input
    ctxref,         \* per run call: the dict current_run_ctx refers to
    inputs,         \* per run call: the argument of run()
    idx,            \* per run call: i, the position of the current input
    current_node,   \* per run call: a node id, 0 = None
    results,        \* per run call: the local list results
    rpc,            \* per run call: "idle", "loop", "walk", "done", "raised"
    retval,         \* per run call: the value run() returned or raised
    ylog,           \* history: per input, the values its YieldNodes produced
    wrote,          \* history: the names bound on behalf of the current input
    lastexec        \* history: the node executed last and the dict before it

gvars == <<graph, env, ctxref, inputs, idx, current_node, results, rpc, retval,
           ylog, wrote, lastexec>>

\* VScheduler, the tasks it creates and its readers.
VARIABLES
    executors,       \* self._executors: module name -> graph (NotCreated = absent)
    response_queue,  \* self._response_queue
    rtask,           \* per request: state of the task running _run_and_enqueue
    rmodule,         \* per request: req.module
    rbatch,          \* per request: the dispatch() batch it belongs to, 0 = add_request
    worker,          \* per request: state of the run_in_executor job
    batches,         \* per dispatch() call: the list of its requests
    gen,             \* per dispatch() call: "none", "running", "exhausted", "raised"
    yielded,         \* history: per dispatch() call, what it yielded, in order
    completed,       \* history: the requests in the order their tasks finished
    delivered        \* history: what responses() yielded, in order

svars == <<executors, response_queue, rtask, rmodule, rbatch, worker, batches,
           gen, yielded, completed, delivered>>

\* One call of optimize_await_sequences(graph) after the other on one graph.
VARIABLES
    ograph,         \* the Graph object: [entry, nodes]
    obefore,        \* history: the graph as it was when the last call began
    ocur,           \* cur, a node id, 0 = None
    oseq,           \* seq: the ids of the nodes collected so far
    opc,            \* "idle" between two calls, "loop" inside the while loop
    ocalls          \* history: the number of calls that have returned

ovars == <<ograph, obefore, ocur, oseq, opc, ocalls>>

\* A context dict with one iterator, has_next and the reader of the iterator.
VARIABLES
    objs,           \* the iterator objects, by id
    hctx,           \* context: name -> value
    hinit,          \* history: the elements the iterator had at the start
    hread,          \* history: the elements read from context[name] so far
    hlast,          \* history: the last has_next call: result and what remained
    hcalls          \* history: the number of has_next calls

hvars == <<objs, hctx, hinit, hread, hlast, hcalls>>

allvars == <<vars, gvars, svars, ovars, hvars>>

NoEntry == <<0, 0, 0>>

\* --------------------------------------------------------------- helpers
\* task.done()
TaskDone(t) == tstate[t][1] \in {"cancelled", "exception", "value"}

FutureDone(f) == fstate[f] # Pending

LoopDone(l) == pc[l] = "done"

\* Tuple comparison of (priority, counter, task): counters are unique, so
\* the task component is never compared.
EntryLess(a, b) == a[1] < b[1] \/ (a[1] = b[1] /\ a[2] < b[2])

\* A queue that ignores the priority and pops in arrival order.
FifoEntry(S) == CHOOSE e \in S : \A x \in S : e[2] <= x[2]

\* PriorityQueue.get: the heap's smallest entry.
MinEntry(S) == CHOOSE e \in S : \A x \in S : x = e \/ EntryLess(e, x)

\* An executor that hands a task's exception over as if it were its result.
OutcomeOfExceptionAsValue(st) ==
    IF st[1] = "cancelled" THEN Cancelled ELSE Returned(st[2])

\* The outcome the executor reads off a done task:
\* cancelled() -> cancel, exception() not None -> that exception, else result().
OutcomeOf(st) ==
    IF st[1] = "cancelled" THEN Cancelled
    ELSE IF st[1] = "exception" THEN Raised(st[2])
    ELSE Returned(st[2])

TaskOutcome(t) == OutcomeOf(tstate[t])

\* is_healthy()
IsHealthy == executor_task # 0 /\ ~LoopDone(executor_task)

TypeOK ==
    /\ waiting \subseteq (Priorities \X (1..MaxEnqueues) \X Tasks)
    /\ running \subseteq (Priorities \X (1..MaxEnqueues) \X Tasks)
    /\ task_futures \in [Tasks -> 0..MaxEnqueues]
    /\ executor_task \in 0..MaxLoops
    /\ task_counter \in 0..MaxEnqueues
    /\ pc \in [Loops -> {"none", "idle", "awaiting", "done"}]
    /\ mustCancel \in [Loops -> BOOLEAN]
    /\ tstate \in [Tasks -> {NotCreated, Pending} \cup Outcomes]
    /\ fstate \in [Futures -> {NotCreated, Pending} \cup Outcomes]

\* ------------------------------------------------------------------- Init
\* No GraphExecutor has been constructed.
GraphAbsent ==
    /\ graph = NotCreated
    /\ env = NotCreated
    /\ ctxref = NotCreated
    /\ inputs = NotCreated
    /\ idx = NotCreated
    /\ current_node = NotCreated
    /\ results = NotCreated
    /\ rpc = NotCreated
    /\ retval = NotCreated
    /\ ylog = NotCreated
    /\ wrote = NotCreated
    /\ lastexec = NotCreated

\* No VScheduler has been constructed.
SchedulerAbsent ==
    /\ executors = NotCreated
    /\ response_queue = NotCreated
    /\ rtask = NotCreated
    /\ rmodule = NotCreated
    /\ rbatch = NotCreated
    /\ worker = NotCreated
    /\ batches = NotCreated
    /\ gen = NotCreated
    /\ yielded = NotCreated
    /\ completed = NotCreated
    /\ delivered = NotCreated

\* optimize_await_sequences is not called.
OptimizerAbsent ==
    /\ ograph = NotCreated
    /\ obefore = NotCreated
    /\ ocur = NotCreated
    /\ oseq = NotCreated
    /\ opc = NotCreated
    /\ ocalls = NotCreated

\* has_next is not called.
HasNextAbsent ==
    /\ objs = NotCreated
    /\ hctx = NotCreated
    /\ hinit = NotCreated
    /\ hread = NotCreated
    /\ hlast = NotCreated
    /\ hcalls = NotCreated

\* No LMExecutor has been constructed.
ExecutorAbsent ==
    /\ waiting = NotCreated
    /\ running = NotCreated
    /\ task_futures = NotCreated
    /\ executor_task = NotCreated
    /\ task_counter = NotCreated
    /\ pc = NotCreated
    /\ cur = NotCreated
    /\ mustCancel = NotCreated
    /\ tstate = NotCreated
    /\ fstate = NotCreated
    /\ ftask = NotCreated
    /\ fentry = NotCreated
    /\ fby = NotCreated
    /\ signals = NotCreated
    /\ nfutures = NotCreated
    /\ wasRun = NotCreated
    /\ cancelWaiting = NotCreated
    /\ stopped = NotCreated
    /\ nstops = NotCreated
    /\ ncancels = NotCreated

\* LMExecutor.__init__ followed by _start_executor() under a running loop.
Init ==
    /\ GraphAbsent
    /\ SchedulerAbsent
    /\ OptimizerAbsent
    /\ HasNextAbsent
    /\ waiting = {}
    /\ running = {}
    /\ task_futures = [t \in Tasks |-> 0]
    /\ executor_task = 1
    /\ task_counter = 0
    /\ pc = [l \in Loops |-> IF l = 1 THEN "idle" ELSE "none"]
    /\ cur = [l \in Loops |-> NoEntry]
    /\ mustCancel = [l \in Loops |-> FALSE]
    /\ tstate = [t \in Tasks |-> NotCreated]
    /\ fstate = [f \in Futures |-> NotCreated]
    /\ ftask = [f \in Futures |-> 0]
    /\ fentry = [f \in Futures |-> NoEntry]
    /\ fby = [f \in Futures |-> "nobody"]
    /\ signals = [f \in Futures |-> 0]
    /\ nfutures = 0
    /\ wasRun = [t \in Tasks |-> FALSE]
    /\ cancelWaiting = [t \in Tasks |-> FALSE]
    /\ stopped = FALSE
    /\ nstops = 0
    /\ ncancels = 0

\* --------------------------------------------------------------- futures
\* Apply outcome o to future f (set_result / set_exception / cancel).  On a
\* future that is already done asyncio keeps the first outcome (set_* raises
\* InvalidStateError); the attempt is still counted in signals.
Deliver(f, o, who) ==
    /\ fstate' = [fstate EXCEPT ![f] = IF @ = Pending THEN o ELSE @]
    /\ fby' = [fby EXCEPT ![f] = IF fstate[f] = Pending THEN who ELSE @]
    /\ signals' = [signals EXCEPT ![f] = @ + 1]

\* The same without the "if not future.done()" test.
CompleteFutureUnguarded(t, who) ==
    IF task_futures[t] # 0
    THEN /\ task_futures' = [task_futures EXCEPT ![t] = 0]
         /\ Deliver(task_futures[t], TaskOutcome(t), who)
    ELSE UNCHANGED <<task_futures, fstate, fby, signals>>

\* A run loop that forgets the future of the task it has finished with.
CompleteFutureForgotten(t, who) ==
    /\ task_futures' = [task_futures EXCEPT ![t] = 0]
    /\ UNCHANGED <<fstate, fby, signals>>

\* run(): "if task in self._task_futures: future = pop(task);
\*         if not future.done(): <apply the task's outcome>"
CompleteFuture(t, who) ==
    IF task_futures[t] # 0
    THEN /\ task_futures' = [task_futures EXCEPT ![t] = 0]
         /\ IF ~FutureDone(task_futures[t])
            THEN Deliver(task_futures[t], TaskOutcome(t), who)
            ELSE UNCHANGED <<fstate, fby, signals>>
    ELSE UNCHANGED <<task_futures, fstate, fby, signals>>

\* ------------------------------------------------------- _start_executor
NeedStart == executor_task = 0 \/ LoopDone(executor_task)

FreeLoops == {l \in Loops : pc[l] = "none"}

NewLoop == CHOOSE l \in FreeLoops : \A m \in FreeLoops : l <= m

StartExecutor ==
    IF NeedStart
    THEN /\ executor_task' = NewLoop
         /\ pc' = [pc EXCEPT ![NewLoop] = "idle"]
    ELSE UNCHANGED <<executor_task, pc>>

\* ---------------------------------------------------------------- enqueue
\* Task t was handed to enqueue() before.
Submitted(t) == \E g \in Futures : ftask[g] = t

\* An enqueue that counts and queues a task that is already done.
EnqueueDoneQueued(t, p, st) ==
    /\ fstate' = [fstate EXCEPT ![nfutures + 1] = OutcomeOf(st)]
    /\ fby' = [fby EXCEPT ![nfutures + 1] = "enqueue"]
    /\ signals' = [signals EXCEPT ![nfutures + 1] = 1]
    /\ task_counter' = task_counter + 1
    /\ waiting' = waiting \cup {<<p, task_counter + 1, t>>}
    /\ UNCHANGED <<task_futures, fentry>>

\* enqueue() of a task that is already done: a fresh future is resolved with
\* the task's outcome and returned.
EnqueueDone(t, p, st) ==
    /\ fstate' = [fstate EXCEPT ![nfutures + 1] = OutcomeOf(st)]
    /\ fby' = [fby EXCEPT ![nfutures + 1] = "enqueue"]
    /\ signals' = [signals EXCEPT ![nfutures + 1] = 1]
    /\ UNCHANGED <<waiting, task_counter, task_futures, fentry>>

\* enqueue() of a pending task: map the task to a fresh future, bump the
\* counter and put (priority, counter, task) on the waiting queue.
EnqueuePending(t, p) ==
    /\ fstate' = [fstate EXCEPT ![nfutures + 1] = Pending]
    /\ task_futures' = [task_futures EXCEPT ![t] = nfutures + 1]
    /\ task_counter' = task_counter + 1
    /\ waiting' = waiting \cup {<<p, task_counter + 1, t>>}
    /\ fentry' = [fentry EXCEPT ![nfutures + 1] = <<p, task_counter + 1, t>>]
    /\ UNCHANGED <<fby, signals>>

\* enqueue(task, priority).  The caller made the task earlier with
\* asyncio.create_task, so at its first submission the task is in any state
\* st: still pending, or done with one of its outcomes.  A task submitted
\* again is in the state it has reached.
Enqueue(t, p, st) ==
    /\ nfutures < MaxEnqueues
    /\ \A u \in Tasks : u < t => Submitted(u)  \* tasks are numbered in submission order
    /\ Submitted(t) => st = tstate[t]
    /\ NeedStart => FreeLoops # {}
    /\ StartExecutor
    /\ tstate' = [tstate EXCEPT ![t] = st]
    /\ IF st # Pending THEN EnqueueDone(t, p, st) ELSE EnqueuePending(t, p)
    /\ nfutures' = nfutures + 1
    /\ ftask' = [ftask EXCEPT ![nfutures + 1] = t]
    /\ stopped' = FALSE
    /\ UNCHANGED <<running, cur, mustCancel, wasRun, cancelWaiting, nstops, ncancels>>

\* ------------------------------------------------------------------- run
\* Branches of the code that no state reaches and that have no action here:
\* put_nowait on the unbounded waiting queue never raises (enqueue, "except
\* Exception"); the timeout of wait_for changes nothing and loops; nothing
\* inside the loop body raises an Exception past the inner handlers (run,
\* the outer "except Exception" with its sleep).
\* One pass of the loop from "await self._waiting.get()" to the next
\* suspension: pop the smallest entry; a task that is already done only has
\* its future cleaned up, any other task goes to the running queue and is
\* awaited.
RunPop(l) ==
    /\ pc[l] = "idle"
    /\ ~mustCancel[l]
    /\ waiting # {}
    /\ LET e == MinEntry(waiting) IN
        /\ waiting' = waiting \ {e}
        /\ IF TaskDone(e[3])
           THEN /\ CompleteFuture(e[3], "run")
                /\ UNCHANGED <<running, pc, cur, wasRun>>
           ELSE /\ running' = running \cup {e}
                /\ pc' = [pc EXCEPT ![l] = "awaiting"]
                /\ cur' = [cur EXCEPT ![l] = e]
                /\ wasRun' = [wasRun EXCEPT ![e[3]] = TRUE]
                /\ UNCHANGED <<task_futures, fstate, fby, signals>>
    /\ UNCHANGED <<executor_task, task_counter, mustCancel, tstate, ftask, fentry, nfutures, cancelWaiting, stopped,
                   nstops, ncancels>>

\* A loop that catches nothing: any task that does not return ends it.
AfterAwaitBreakOnError(l) ==
    IF mustCancel[l] \/ tstate[cur[l][3]][1] # "value" THEN "done" ELSE "idle"

\* Where the loop goes after "await task" and its finally block: a value or
\* an Exception returns to the top of the loop; CancelledError is not an
\* Exception, so it leaves the inner try and reaches
\* "except asyncio.CancelledError: break".
AfterAwait(l) ==
    IF mustCancel[l] \/ tstate[cur[l][3]] = Cancelled THEN "done" ELSE "idle"

\* The awaited task is done: the loop resumes, runs the finally block
\* (running.get(), future completion) and continues or breaks.
RunFinish(l) ==
    /\ pc[l] = "awaiting"
    /\ TaskDone(cur[l][3])
    /\ running' = running \ {MinEntry(running)}
    /\ CompleteFuture(cur[l][3], "run")
    /\ pc' = [pc EXCEPT ![l] = AfterAwait(l)]
    /\ cur' = [cur EXCEPT ![l] = NoEntry]
    /\ mustCancel' = [mustCancel EXCEPT ![l] = FALSE]
    /\ UNCHANGED <<waiting, executor_task, task_counter, tstate, ftask, fentry, nfutures, wasRun, cancelWaiting,
                   stopped, nstops, ncancels>>

\* The loop was cancelled while suspended in "await self._waiting.get()":
\* CancelledError is raised there and the loop breaks.
RunCancelled(l) ==
    /\ pc[l] = "idle"
    /\ mustCancel[l]
    /\ pc' = [pc EXCEPT ![l] = "done"]
    /\ mustCancel' = [mustCancel EXCEPT ![l] = FALSE]
    /\ UNCHANGED <<waiting, running, task_futures, executor_task, task_counter,
                   cur, tstate, fstate, ftask, fentry, fby, signals,
                   nfutures, wasRun, cancelWaiting, stopped,
                   nstops, ncancels>>

\* ------------------------------------------------------------------ stop
\* self._executor_task.cancel(): a loop suspended on a pending task passes
\* the cancellation on to that task (Task.cancel cancels what the task waits
\* for) and resumes only when the task is done, with whatever the task ended
\* in; otherwise CancelledError is thrown into the loop at its next step.
CancelLoop(l) ==
    IF pc[l] = "awaiting" /\ ~TaskDone(cur[l][3])
    THEN UNCHANGED mustCancel
    ELSE mustCancel' = [mustCancel EXCEPT ![l] = TRUE]

\* stop(): "for task, future in items: if not future.done(): future.cancel()"
CancelledByStop(f) ==
    \E t \in Tasks : task_futures[t] = f /\ ~FutureDone(f)

\* A stop() that cancels the loop but keeps the reference to it.
StopKeepsTask ==
    /\ nstops < MaxStops
    /\ IF executor_task # 0 /\ ~LoopDone(executor_task)
       THEN /\ CancelLoop(executor_task)
            /\ UNCHANGED executor_task
       ELSE UNCHANGED <<executor_task, mustCancel>>
    /\ fstate' = [f \in Futures |-> IF CancelledByStop(f) THEN Cancelled ELSE fstate[f]]
    /\ fby' = [f \in Futures |-> IF CancelledByStop(f) THEN "stop" ELSE fby[f]]
    /\ signals' = [f \in Futures |-> IF CancelledByStop(f) THEN signals[f] + 1 ELSE signals[f]]
    /\ task_futures' = [t \in Tasks |-> 0]
    /\ stopped' = TRUE
    /\ nstops' = nstops + 1
    /\ UNCHANGED <<waiting, running, task_counter, pc, cur, tstate, ftask,
                   fentry, nfutures, wasRun, cancelWaiting, ncancels>>

Stop ==
    /\ nstops < MaxStops
    /\ IF executor_task # 0 /\ ~LoopDone(executor_task)
       THEN /\ CancelLoop(executor_task)
            /\ executor_task' = 0
       ELSE UNCHANGED <<executor_task, mustCancel>>
    /\ fstate' = [f \in Futures |-> IF CancelledByStop(f) THEN Cancelled ELSE fstate[f]]
    /\ fby' = [f \in Futures |-> IF CancelledByStop(f) THEN "stop" ELSE fby[f]]
    /\ signals' = [f \in Futures |-> IF CancelledByStop(f) THEN signals[f] + 1 ELSE signals[f]]
    /\ task_futures' = [t \in Tasks |-> 0]
    /\ stopped' = TRUE
    /\ nstops' = nstops + 1
    /\ UNCHANGED <<waiting, running, task_counter, pc, cur, tstate, ftask,
                   fentry, nfutures, wasRun, cancelWaiting, ncancels>>

\* ----------------------------------------------------------- environment
\* The work of an asyncio task ends: it returns, raises or is cancelled.  A
\* task that was asked to cancel may still return or raise (cancellation is
\* cooperative).
TaskFinish(t, o) ==
    /\ tstate[t] = Pending
    /\ tstate' = [tstate EXCEPT ![t] = o]
    /\ UNCHANGED <<waiting, running, task_futures, executor_task, task_counter,
                   pc, cur, mustCancel, fstate, ftask, fentry, fby, signals,
                   nfutures, wasRun, cancelWaiting, stopped, nstops, ncancels>>

\* A caller calls task.cancel() on a task that is in the waiting queue and
\* was never popped.  Task.cancel() only requests the cancellation: the task
\* is not done until it next runs, and it may take any time to get there.
TaskCancel(t) ==
    /\ tstate[t] = Pending
    /\ ~wasRun[t]
    /\ \E e \in waiting : e[3] = t
    /\ ~cancelWaiting[t]
    /\ ncancels < MaxCancels
    /\ ncancels' = ncancels + 1
    /\ cancelWaiting' = [cancelWaiting EXCEPT ![t] = TRUE]
    /\ UNCHANGED <<waiting, running, task_futures, executor_task, task_counter,
                   pc, cur, mustCancel, tstate, fstate, ftask, fentry, fby,
                   signals, nfutures, wasRun, stopped, nstops>>

\* A caller cancels a pending future that enqueue returned.
FutureCancel(f) ==
    /\ fstate[f] = Pending
    /\ ncancels < MaxCancels
    /\ ncancels' = ncancels + 1
    /\ Deliver(f, Cancelled, "caller")
    /\ UNCHANGED <<waiting, running, task_futures, executor_task, task_counter,
                   pc, cur, mustCancel, tstate, ftask, fentry,
                   nfutures, wasRun, cancelWaiting, stopped, nstops>>

Next ==
    \/ /\ \E t \in Tasks, p \in Priorities : \E st \in {Pending} \cup OutcomesOf(t) : Enqueue(t, p, st)
       /\ UNCHANGED <<gvars, svars, ovars, hvars>>
    \/ /\ \E l \in Loops : RunPop(l)
       /\ UNCHANGED <<gvars, svars, ovars, hvars>>
    \/ /\ \E l \in Loops : RunFinish(l)
       /\ UNCHANGED <<gvars, svars, ovars, hvars>>
    \/ /\ \E l \in Loops : RunCancelled(l)
       /\ UNCHANGED <<gvars, svars, ovars, hvars>>
    \/ /\ Stop
       /\ UNCHANGED <<gvars, svars, ovars, hvars>>
    \/ /\ \E t \in Tasks : \E o \in OutcomesOf(t) : TaskFinish(t, o)
       /\ UNCHANGED <<gvars, svars, ovars, hvars>>
    \/ /\ \E t \in Tasks : TaskCancel(t)
       /\ UNCHANGED <<gvars, svars, ovars, hvars>>
    \/ /\ \E f \in Futures : FutureCancel(f)
       /\ UNCHANGED <<gvars, svars, ovars, hvars>>

Spec == Init /\ [][Next]_vars

\* The event loop runs every task that is ready, so a run loop that can take
\* a step takes it; and the work of every asyncio task ends at some point.
Fairness ==
    /\ \A l \in Loops :
        WF_vars(RunPop(l)) /\ WF_vars(RunFinish(l)) /\ WF_vars(RunCancelled(l))
    /\ \A t \in Tasks : WF_vars(\E o \in OutcomesOf(t) : TaskFinish(t, o))

\* The runs in which stop() is never called and no caller cancels a task or
\* a future, under the fairness above.
NextUndisturbed ==
    \/ /\ \E t \in Tasks, p \in Priorities : \E st \in {Pending} \cup OutcomesOf(t) : Enqueue(t, p, st)
       /\ UNCHANGED <<gvars, svars, ovars, hvars>>
    \/ /\ \E l \in Loops : RunPop(l)
       /\ UNCHANGED <<gvars, svars, ovars, hvars>>
    \/ /\ \E l \in Loops : RunFinish(l)
       /\ UNCHANGED <<gvars, svars, ovars, hvars>>
    \/ /\ \E t \in Tasks : \E o \in OutcomesOf(t) : TaskFinish(t, o)
       /\ UNCHANGED <<gvars, svars, ovars, hvars>>

LiveSpec == Init /\ [][NextUndisturbed]_vars /\ Fairness

\* ===================================================== vagents.executor
\* ------------------------------------------------------------------ bounds
NumRuns == 2
MaxInputs == 3
MaxQuery == 1

Runs == 1..NumRuns

\* --------------------------------------------------------------- values
\* Python values are tagged, so that values of different types compare unequal.
PyNone == <<"None", 0>>
PyInt(n) == <<"int", n>>
List(s) == <<"list", s>>
Req(r) == <<"req", r>>
Resp(r) == <<"resp", r>>
Module(m) == <<"module", m>>
Unbound == <<"unbound", 0>>
Exc(e) == <<"raise", e>>

IsExc(v) == v[1] = "raise"

\* bool(v) for the values above.
Truthy(v) ==
    CASE v[1] = "int" -> v[2] # 0
      [] v[1] = "list" -> v[2] # <<>>
      [] v[1] = "None" -> FALSE
      [] OTHER -> TRUE

Stream == "__yielded_values_stream__"

Names == {"query", "x", "a", "b", "base", "asyncio", "__results",
          "__execution_context__", Stream}

\* self.base_ctx after __init__ with global_context = {"base": 1}; the
\* entries "__builtins__" and "has_next" are never touched by the fragments below.
BaseCtx == [n \in Names |-> IF n = "base" THEN PyInt(1) ELSE Unbound]

\* ---------------------------------------------------------- fragments
\* Expressions: <<"const", v>>, <<"name", n>>, <<"respond", n>> for
\* OutResponse(id=n.id), <<"nocode">> for the absent code of ReturnNode().
\* eval(code, ctx, ctx): the value, or the exception raised.
Eval(e, d) ==
    CASE e[1] = "const" -> e[2]
      [] e[1] = "name" -> IF d[e[2]] = Unbound THEN Exc("NameError") ELSE d[e[2]]
      [] e[1] = "respond" ->
            IF d[e[2]] = Unbound THEN Exc("NameError")
            ELSE IF d[e[2]][1] = "req" THEN Resp(d[e[2]][2])
            ELSE Exc("AttributeError")
      [] OTHER -> PyNone

\* Awaitables: <<"call", k>> is get_value(k), which returns k;
\* <<"gather", cs>> is asyncio.gather(cs), which returns the list of results.
AwaitValue(c) ==
    IF c[1] = "call" THEN PyInt(c[2])
    ELSE List([i \in DOMAIN c[2] |-> PyInt(c[2][i][2])])

\* Statements, one per source line: <<"assign", var, expr>>,
\* <<"await_assign", var, awaitable>>, <<"await", awaitable>>,
\* <<"import", module>>, <<"unpack", vars, name>>.
HasAwait(line) == line[1] \in {"await_assign", "await"}

\* 'await ' in self.source
ContainsAwait(source) == \E i \in DOMAIN source : HasAwait(source[i])

\* re.match(r"(\w+)\s*(?::\s*\w+)?\s*=\s*await\s+(.+)", source): the pattern is
\* anchored at the start of the source and (.+) ends at the first newline.
AwaitAssignMatch(source) == source # <<>> /\ source[1][1] = "await_assign"

\* A test that lets repeated names pass.
AnyNames(s) == TRUE

\* len(set(vars_seq)) == len(seq)
Distinct(s) == \A i, j \in DOMAIN s : i # j => s[i] # s[j]

\* One statement run by exec(code, ctx, ctx); the result is [d, raised].
ExecLine(line, d) ==
    CASE line[1] = "assign" ->
            LET v == Eval(line[3], d) IN
            IF IsExc(v) THEN [d |-> d, raised |-> v[2]]
            ELSE [d |-> [d EXCEPT ![line[2]] = v], raised |-> ""]
      [] line[1] = "import" ->
            [d |-> [d EXCEPT ![line[2]] = Module(line[2])], raised |-> ""]
      [] line[1] = "unpack" ->
            LET v == d[line[3]] IN
            IF v = Unbound THEN [d |-> d, raised |-> "NameError"]
            ELSE IF v[1] # "list" THEN [d |-> d, raised |-> "TypeError"]
            ELSE IF Len(v[2]) # Len(line[2]) THEN [d |-> d, raised |-> "ValueError"]
            ELSE [d |-> [n \in Names |->
                            IF \E i \in DOMAIN line[2] : line[2][i] = n
                            THEN v[2][CHOOSE i \in DOMAIN line[2] :
                                        /\ line[2][i] = n
                                        /\ \A j \in DOMAIN line[2] : line[2][j] = n => j <= i]
                            ELSE d[n]],
                  raised |-> ""]
      [] OTHER -> [d |-> d, raised |-> "SyntaxError"]

RECURSIVE ExecLines(_, _)
ExecLines(source, d) ==
    IF source = <<>> THEN [d |-> d, raised |-> ""]
    ELSE LET r == ExecLine(Head(source), d) IN
         IF r.raised # "" THEN r ELSE ExecLines(Tail(source), r.d)

\* ------------------------------------------------------------------ nodes
\* A node is [kind, src, next, alt]; next and alt are node ids, 0 is None.
ActionNode(source, next_node) ==
    [kind |-> "action", src |-> source, next |-> next_node, alt |-> 0]
ConditionNode(test_source, true_next, false_next) ==
    [kind |-> "condition", src |-> test_source, next |-> true_next, alt |-> false_next]
ReturnNode(value_source) ==
    [kind |-> "return", src |-> value_source, next |-> 0, alt |-> 0]
YieldNode(yield_expression_source, next_node) ==
    [kind |-> "yield", src |-> yield_expression_source, next |-> next_node, alt |-> 0]

\* The result of node.execute(ctx) is [next, d, raised].
Step(nxt, d, raised) == [next |-> nxt, d |-> d, raised |-> raised]

\* The fallback of ActionNode.execute: the source is appended to
\* "async def __node_exec():\n    ", so only its first line is in the body of
\* the coroutine; the other lines are top level statements of the code given
\* to exec, which does not compile when one of them awaits.  Names bound in
\* the coroutine body are its locals, not entries of ctx.
ActionFallback(n, d) ==
    IF \E i \in DOMAIN n.src : i > 1 /\ HasAwait(n.src[i])
    THEN Step(0, d, "SyntaxError")
    ELSE LET r == ExecLines(Tail(n.src), d) IN
         IF r.raised # "" THEN Step(0, r.d, r.raised) ELSE Step(n.next, r.d, "")

ActionExecute(n, d) ==
    IF ContainsAwait(n.src)
    THEN IF AwaitAssignMatch(n.src)
         THEN Step(n.next, [d EXCEPT ![n.src[1][2]] = AwaitValue(n.src[1][3])], "")
         ELSE ActionFallback(n, d)
    ELSE LET r == ExecLines(n.src, d) IN
         IF r.raised # "" THEN Step(0, r.d, r.raised) ELSE Step(n.next, r.d, "")

ConditionExecute(n, d) ==
    LET v == Eval(n.src, d) IN
    IF IsExc(v) THEN Step(0, d, v[2])
    ELSE Step(IF Truthy(v) THEN n.next ELSE n.alt, d, "")

YieldExecute(n, d) ==
    LET v == Eval(n.src, d) IN
    IF IsExc(v) THEN Step(0, d, v[2])
    ELSE Step(n.next,
              [d EXCEPT ![Stream] = IF @ = Unbound THEN List(<<v>>)
                                    ELSE List(Append(@[2], v))],
              "")

Execute(n, d) ==
    CASE n.kind = "action" -> ActionExecute(n, d)
      [] n.kind = "condition" -> ConditionExecute(n, d)
      [] n.kind = "yield" -> YieldExecute(n, d)
      [] OTHER -> Step(0, d, "")

\* -------------------------------------------------------------- optimizer
\* A graph is [entry, nodes]: nodes is the sequence of its nodes, a node id is
\* a position in it.
Graph(entry_node, node_seq) == [entry |-> entry_node, nodes |-> node_seq]

\* The while loop of optimize_await_sequences: the ids of the consecutive
\* ActionNodes, from cur on, whose source matches the await assignment.  On
\* a cycle of such nodes the loop does not end (OptLoop below steps through
\* it); fuel, the number of nodes, is never used up on a graph without a
\* cycle, and only such graphs are given to this operator.
RECURSIVE AwaitRun(_, _, _)
AwaitRun(g, cur_node, fuel) ==
    IF fuel = 0 \/ cur_node = 0 THEN <<>>
    ELSE IF g.nodes[cur_node].kind = "action" /\ AwaitAssignMatch(g.nodes[cur_node].src)
         THEN <<cur_node>> \o AwaitRun(g, g.nodes[cur_node].next, fuel - 1)
         ELSE <<>>

\* cur when the loop ends: the first node that is not part of the run.
AfterRun(g, seq) == IF seq = <<>> THEN g.entry ELSE g.nodes[seq[Len(seq)]].next

\* combined_src: import asyncio / __results = await asyncio.gather(exprs) /
\* vars_list = __results
CombinedSrc(g, seq) ==
    << <<"import", "asyncio">>,
       <<"await_assign", "__results",
         <<"gather", [i \in DOMAIN seq |-> g.nodes[seq[i]].src[1][3]]>> >>,
       <<"unpack", [i \in DOMAIN seq |-> g.nodes[seq[i]].src[1][2]], "__results">> >>

optimize_await_sequences(g) ==
    LET seq == AwaitRun(g, g.entry, Len(g.nodes))
        vars_seq == [i \in DOMAIN seq |-> g.nodes[seq[i]].src[1][2]]
    IN  IF Len(seq) > 1 /\ Distinct(vars_seq)
        THEN Graph(Len(g.nodes) + 1,
                   Append(g.nodes, ActionNode(CombinedSrc(g, seq), AfterRun(g, seq))))
        ELSE g

apply_optimizations(g) == optimize_await_sequences(g)

\* Graph.optimize(), called by GraphExecutor.__init__.
GraphOptimize(g) == apply_optimizations(g)

\* ----------------------------------------------------------------- graphs
\* The handlers the executor is constructed with.
\* return query
ReturnGraph == Graph(1, <<ReturnNode(<<"name", "query">>)>>)

\* if query: return query / return x        (x is never bound)
BranchGraph ==
    Graph(1, <<ConditionNode(<<"name", "query">>, 2, 3),
               ReturnNode(<<"name", "query">>),
               ReturnNode(<<"name", "x">>)>>)

\* yield query / x = base / base = query / yield x / return None
YieldReturnGraph ==
    Graph(1, <<YieldNode(<<"name", "query">>, 2),
               ActionNode(<< <<"assign", "x", <<"name", "base">> >>,
                             <<"assign", "base", <<"name", "query">> >> >>, 3),
               YieldNode(<<"name", "x">>, 4),
               ReturnNode(<<"nocode">>)>>)

\* if query: yield query / x = query          (no return statement)
YieldFallOffGraph ==
    Graph(1, <<ConditionNode(<<"name", "query">>, 2, 3),
               YieldNode(<<"name", "query">>, 3),
               ActionNode(<< <<"assign", "x", <<"name", "query">> >> >>, 0)>>)

\* a = await get_value(1) / b = await get_value(2) / return b
AwaitGraph ==
    Graph(1, <<ActionNode(<< <<"await_assign", "a", <<"call", 1>> >> >>, 2),
               ActionNode(<< <<"await_assign", "b", <<"call", 2>> >> >>, 3),
               ReturnNode(<<"name", "b">>)>>)

\* a = await get_value(1) / a = await get_value(2) / return a
RebindGraph ==
    Graph(1, <<ActionNode(<< <<"await_assign", "a", <<"call", 1>> >> >>, 2),
               ActionNode(<< <<"await_assign", "a", <<"call", 2>> >> >>, 3),
               ReturnNode(<<"name", "a">>)>>)

Graphs == {ReturnGraph, BranchGraph, YieldReturnGraph, YieldFallOffGraph,
           AwaitGraph, RebindGraph}

Queries == 0..MaxQuery

RECURSIVE SeqsUpTo(_, _)
SeqsUpTo(S, n) ==
    IF n = 0 THEN {<<>>}
    ELSE LET shorter == SeqsUpTo(S, n - 1) IN
         shorter \cup {Append(s, x) : s \in shorter, x \in S}

InputLists == SeqsUpTo({PyInt(q) : q \in Queries}, MaxInputs)

\* ------------------------------------------------------ GraphExecutor.run
\* base_ctx.copy() gives run call th a dict object of its own for the
\* current input; a run that used base_ctx itself would refer to dict 0.
CtxShared(th) == 0
CtxCopy(th) == th

\* current_run_ctx after the update and the binding of 'query'.
NewRunCtx(base, inp) ==
    [base EXCEPT !["__execution_context__"] = <<"dict", 0>>,
                 ![Stream] = List(<<>>),
                 !["query"] = inp]

\* The ReturnNode branch of the while loop: what results becomes.
ReturnResult(res, d, return_value) ==
    Append(res, IF Truthy(d[Stream]) THEN d[Stream] ELSE return_value)

\* The test after the while loop when current_node is None.
FallOffResult(res, d) ==
    IF Truthy(d[Stream]) /\ res = <<>> THEN Append(res, d[Stream]) ELSE res

\* return results[0] if len(results) == 1 else results
RunReturnValue(res) == IF Len(res) = 1 THEN res[1] ELSE List(res)

\* The while loop for one input, from node cur_node with dict d.  The graphs
\* above have no cycle, so the loop ends.
RECURSIVE Walk(_, _, _)
\* The loop after current_node.execute(ctx) gave r.
WalkOn(g, r) ==
    IF r.raised # "" THEN [end |-> "raise", value |-> Exc(r.raised), d |-> r.d]
    ELSE Walk(g, r.next, r.d)

\* The loop at a ReturnNode whose code evaluated to v.
WalkReturn(v, d) ==
    IF IsExc(v) THEN [end |-> "raise", value |-> v, d |-> d]
    ELSE [end |-> "return", value |-> v, d |-> d]

Walk(g, cur_node, d) ==
    IF cur_node = 0 THEN [end |-> "falloff", value |-> PyNone, d |-> d]
    ELSE IF g.nodes[cur_node].kind = "return"
         THEN WalkReturn(Eval(g.nodes[cur_node].src, d), d)
         ELSE WalkOn(g, Execute(g.nodes[cur_node], d))

\* run(ins) as a function, when no other run call shares a dict with it:
\* the value returned, or the exception raised.
RECURSIVE RunInputs(_, _, _, _)
\* The for loop after the traversal of one input ended as w.
RunRest(g, base, rest, res, w) ==
    CASE w.end = "raise" -> w.value
      [] w.end = "return" -> RunInputs(g, base, rest, ReturnResult(res, w.d, w.value))
      [] OTHER -> RunInputs(g, base, rest, FallOffResult(res, w.d))

RunInputs(g, base, ins, res) ==
    IF ins = <<>> THEN RunReturnValue(res)
    ELSE RunRest(g, base, Tail(ins), res, Walk(g, g.entry, NewRunCtx(base, Head(ins))))

GraphRun(g, base, ins) == RunInputs(g, base, ins, <<>>)

NoExec == [node |-> 0, raised |-> ""]

\* GraphExecutor.__init__ with one of the handlers; no run call made yet.
GraphInit ==
    /\ ExecutorAbsent
    /\ SchedulerAbsent
    /\ OptimizerAbsent
    /\ HasNextAbsent
    /\ graph \in {GraphOptimize(g) : g \in Graphs}
    /\ env = [k \in 0..NumRuns |-> BaseCtx]
    /\ ctxref = [th \in Runs |-> th]
    /\ inputs = [th \in Runs |-> <<>>]
    /\ idx = [th \in Runs |-> 0]
    /\ current_node = [th \in Runs |-> 0]
    /\ results = [th \in Runs |-> <<>>]
    /\ rpc = [th \in Runs |-> "idle"]
    /\ retval = [th \in Runs |-> PyNone]
    /\ ylog = [th \in Runs |-> <<>>]
    /\ wrote = [th \in Runs |-> {}]
    /\ lastexec = [th \in Runs |-> NoExec]

\* A thread calls run(ins).
GraphRunCall(th, ins) ==
    /\ rpc[th] = "idle"
    /\ inputs' = [inputs EXCEPT ![th] = ins]
    /\ results' = [results EXCEPT ![th] = <<>>]
    /\ rpc' = [rpc EXCEPT ![th] = "loop"]
    /\ UNCHANGED <<graph, env, ctxref, idx, current_node, retval, ylog, wrote, lastexec>>

\* The top of the for loop, for the next input.
GraphRunInput(th) ==
    /\ rpc[th] = "loop"
    /\ idx[th] < Len(inputs[th])
    /\ idx' = [idx EXCEPT ![th] = @ + 1]
    /\ ctxref' = [ctxref EXCEPT ![th] = CtxCopy(th)]
    /\ env' = [env EXCEPT ![ctxref'[th]] = NewRunCtx(env[0], inputs[th][idx'[th]])]
    /\ current_node' = [current_node EXCEPT ![th] = graph.entry]
    /\ rpc' = [rpc EXCEPT ![th] = "walk"]
    /\ ylog' = [ylog EXCEPT ![th] = Append(@, <<>>)]
    /\ wrote' = [wrote EXCEPT ![th] = {"query", Stream, "__execution_context__"}]
    /\ lastexec' = [lastexec EXCEPT ![th] = NoExec]
    /\ UNCHANGED <<graph, inputs, results, retval>>

\* One turn of the while loop on a node that is not a ReturnNode.
GraphRunNode(th) ==
    /\ rpc[th] = "walk"
    /\ current_node[th] # 0
    /\ graph.nodes[current_node[th]].kind # "return"
    /\ LET n == graph.nodes[current_node[th]]
           d == env[ctxref[th]]
           r == Execute(n, d)
       IN  /\ env' = [env EXCEPT ![ctxref[th]] = r.d]
           /\ lastexec' = [lastexec EXCEPT ![th] =
                             [node |-> current_node[th], raised |-> r.raised]]
           /\ wrote' = [wrote EXCEPT ![th] = @ \cup {m \in Names : r.d[m] # d[m]}]
           /\ IF r.raised # ""
              THEN /\ rpc' = [rpc EXCEPT ![th] = "raised"]
                   /\ retval' = [retval EXCEPT ![th] = Exc(r.raised)]
                   /\ UNCHANGED <<current_node, ylog>>
              ELSE /\ current_node' = [current_node EXCEPT ![th] = r.next]
                   /\ ylog' = [ylog EXCEPT ![th][idx[th]] =
                                 IF n.kind = "yield" THEN Append(@, Eval(n.src, d)) ELSE @]
                   /\ UNCHANGED <<rpc, retval>>
    /\ UNCHANGED <<graph, ctxref, inputs, idx, results>>

\* One turn of the while loop on a ReturnNode.
GraphRunReturn(th) ==
    /\ rpc[th] = "walk"
    /\ current_node[th] # 0
    /\ graph.nodes[current_node[th]].kind = "return"
    /\ LET d == env[ctxref[th]]
           v == Eval(graph.nodes[current_node[th]].src, d)
       IN  IF IsExc(v)
           THEN /\ rpc' = [rpc EXCEPT ![th] = "raised"]
                /\ retval' = [retval EXCEPT ![th] = v]
                /\ UNCHANGED results
           ELSE /\ results' = [results EXCEPT ![th] = ReturnResult(@, d, v)]
                /\ rpc' = [rpc EXCEPT ![th] = "loop"]
                /\ UNCHANGED retval
    /\ UNCHANGED <<graph, env, ctxref, inputs, idx, current_node, ylog, wrote, lastexec>>

\* The while loop ends because current_node is None.
GraphRunFallOff(th) ==
    /\ rpc[th] = "walk"
    /\ current_node[th] = 0
    /\ results' = [results EXCEPT ![th] = FallOffResult(@, env[ctxref[th]])]
    /\ rpc' = [rpc EXCEPT ![th] = "loop"]
    /\ UNCHANGED <<graph, env, ctxref, inputs, idx, current_node, retval, ylog, wrote, lastexec>>

\* The for loop is over: run() returns.
GraphRunEnd(th) ==
    /\ rpc[th] = "loop"
    /\ idx[th] = Len(inputs[th])
    /\ retval' = [retval EXCEPT ![th] = RunReturnValue(results[th])]
    /\ rpc' = [rpc EXCEPT ![th] = "done"]
    /\ UNCHANGED <<graph, env, ctxref, inputs, idx, current_node, results, ylog, wrote, lastexec>>

GraphNext ==
    \/ /\ \E th \in Runs : \E ins \in InputLists : GraphRunCall(th, ins)
       /\ UNCHANGED <<vars, svars, ovars, hvars>>
    \/ /\ \E th \in Runs : GraphRunInput(th)
       /\ UNCHANGED <<vars, svars, ovars, hvars>>
    \/ /\ \E th \in Runs : GraphRunNode(th)
       /\ UNCHANGED <<vars, svars, ovars, hvars>>
    \/ /\ \E th \in Runs : GraphRunReturn(th)
       /\ UNCHANGED <<vars, svars, ovars, hvars>>
    \/ /\ \E th \in Runs : GraphRunFallOff(th)
       /\ UNCHANGED <<vars, svars, ovars, hvars>>
    \/ /\ \E th \in Runs : GraphRunEnd(th)
       /\ UNCHANGED <<vars, svars, ovars, hvars>>

GraphSpec == GraphInit /\ [][GraphNext]_allvars

GraphTypeOK ==
    /\ rpc \in [Runs -> {"idle", "loop", "walk", "done", "raised"}]
    /\ \A th \in Runs : idx[th] \in 0..Len(inputs[th])
    /\ \A th \in Runs : current_node[th] \in 0..Len(graph.nodes)

\* ============================================ vagents.executor.scheduler
\* ------------------------------------------------------------------ bounds
NumRequests == 3
NumBatches == 2

Requests == 1..NumRequests
Batches == 1..NumBatches

\* The handlers that get registered.
\* return OutResponse(id=query.id)
RespondGraph == Graph(1, <<ReturnNode(<<"respond", "query">>)>>)

\* yield OutResponse(id=query.id)            (no return statement)
StreamGraph == Graph(1, <<YieldNode(<<"respond", "query">>, 0)>>)

\* return x                                  (x is never bound)
FailGraph == Graph(1, <<ReturnNode(<<"name", "x">>)>>)

HandlerOf(m) ==
    CASE m = "respond" -> RespondGraph
      [] m = "stream" -> StreamGraph
      [] OTHER -> FailGraph

\* Modules that register_module is called for; "ghost" is never registered.
Registrable == {"respond", "stream", "fail"}
ModuleNames == Registrable \cup {"ghost"}

RECURSIVE ModuleLists(_)
ModuleLists(n) ==
    IF n = 0 THEN {<<>>}
    ELSE LET shorter == ModuleLists(n - 1) IN
         shorter \cup {Append(s, m) : s \in shorter, m \in ModuleNames}

\* result_list[0]: an OutResponse is a pydantic model and has no __getitem__.
\* When run raised, the exception passes through.
Subscript0(v) ==
    CASE IsExc(v) -> v
      [] v[1] = "list" -> IF v[2] = <<>> THEN Exc("IndexError") ELSE v[2][1]
      [] OTHER -> Exc("TypeError")

\* executor.run([req]) on a worker thread, then result_list[0].
run_single(g, r) == Subscript0(GraphRun(g, BaseCtx, <<Req(r)>>))

\* Task states besides Pending, Raised(e) and Returned(v).
Awaiting == <<"awaiting", 0>>

RequestDone(r) == rtask[r][1] \in {"exception", "value"}

NumSubmitted == Cardinality({r \in Requests : rtask[r] # NotCreated})

\* self._executors.get(m) is None
Unregistered(m) == executors[m][1] = "none"

\* register_module(m, ...): the entry stored in self._executors.
register_module(m) == <<"executor", GraphOptimize(HandlerOf(m))>>

\* VScheduler.__init__, then register_module for every handler; it "must be
\* called before dispatching requests for that module".
SchedInit ==
    /\ ExecutorAbsent
    /\ GraphAbsent
    /\ OptimizerAbsent
    /\ HasNextAbsent
    /\ executors = [m \in ModuleNames |->
                        IF m \in Registrable THEN register_module(m) ELSE NotCreated]
    /\ response_queue = <<>>
    /\ rtask = [r \in Requests |-> NotCreated]
    /\ rmodule = [r \in Requests |-> "ghost"]
    /\ rbatch = [r \in Requests |-> 0]
    /\ worker = [r \in Requests |-> NotCreated]
    /\ batches = [b \in Batches |-> <<>>]
    /\ gen = [b \in Batches |-> "none"]
    /\ yielded = [b \in Batches |-> <<>>]
    /\ completed = <<>>
    /\ delivered = <<>>

\* asyncio.create_task(self._run_and_enqueue(req)) for the requests rs, which
\* name the modules ms.
CreateTasks(rs, ms, b) ==
    /\ rtask' = [r \in Requests |-> IF r \in rs THEN Pending ELSE rtask[r]]
    /\ rmodule' = [r \in Requests |-> IF r \in rs THEN ms[r - NumSubmitted] ELSE rmodule[r]]
    /\ rbatch' = [r \in Requests |-> IF r \in rs THEN b ELSE rbatch[r]]

\* add_request(req): requests are numbered in the order they are submitted.
add_request(m) ==
    /\ NumSubmitted < NumRequests
    /\ CreateTasks({NumSubmitted + 1}, <<m>>, 0)
    /\ UNCHANGED <<executors, response_queue, worker, batches, gen, yielded,
                   completed, delivered>>

\* The first step of the generator made by dispatch(requests): it creates
\* the tasks and waits for the first of them to finish.
dispatch(b, ms) ==
    /\ gen[b] = "none"
    /\ \A c \in Batches : c < b => gen[c] # "none"
    /\ NumSubmitted + Len(ms) <= NumRequests
    /\ LET rs == (NumSubmitted + 1)..(NumSubmitted + Len(ms)) IN
       /\ CreateTasks(rs, ms, b)
       /\ batches' = [batches EXCEPT ![b] = [i \in 1..Len(ms) |-> NumSubmitted + i]]
    /\ gen' = [gen EXCEPT ![b] = "running"]
    /\ UNCHANGED <<executors, response_queue, worker, yielded, completed, delivered>>

\* The task of request r runs up to the await in _run_single: it raises when
\* no executor is registered, else it hands executor.run([req]) to a worker.
TaskStart(r) ==
    /\ rtask[r] = Pending
    /\ IF Unregistered(rmodule[r])
       THEN /\ rtask' = [rtask EXCEPT ![r] = Raised("RuntimeError")]
            /\ completed' = Append(completed, r)
            /\ UNCHANGED worker
       ELSE /\ rtask' = [rtask EXCEPT ![r] = Awaiting]
            /\ worker' = [worker EXCEPT ![r] = Pending]
            /\ UNCHANGED completed
    /\ UNCHANGED <<executors, response_queue, rmodule, rbatch, batches, gen,
                   yielded, delivered>>

\* _run_and_enqueue after _run_single gave resp: the exception ends the task,
\* a response is put on the queue and returned.  The queue is unbounded, so
\* put() does not suspend.
run_and_enqueue(r, resp) ==
    IF IsExc(resp)
    THEN /\ rtask' = [rtask EXCEPT ![r] = Raised(resp[2])]
         /\ UNCHANGED response_queue
    ELSE /\ rtask' = [rtask EXCEPT ![r] = Returned(resp)]
         /\ response_queue' = Append(response_queue, resp)

\* The worker ends and the task of request r resumes after the await.
TaskFinishRequest(r) ==
    /\ rtask[r] = Awaiting
    /\ worker' = [worker EXCEPT ![r] = <<"done", 0>>]
    /\ run_and_enqueue(r, run_single(executors[rmodule[r]][2], r))
    /\ completed' = Append(completed, r)
    /\ UNCHANGED <<executors, rmodule, rbatch, batches, gen, yielded, delivered>>

\* The requests of batch b whose tasks are done, in the order they finished.
RECURSIVE OfBatch(_, _)
OfBatch(s, b) ==
    IF s = <<>> THEN <<>>
    ELSE IF rbatch[Head(s)] = b THEN <<Head(s)>> \o OfBatch(Tail(s), b)
    ELSE OfBatch(Tail(s), b)

FinishedOf(b) == OfBatch(completed, b)

\* The number of futures the generator of batch b has taken so far.
Taken(b) == Len(yielded[b])

\* A loop that awaited the tasks in the order of the list would take the
\* next request of the batch, once it is done.
NextSubmitted(b) ==
    IF RequestDone(batches[b][Taken(b) + 1]) THEN batches[b][Taken(b) + 1] ELSE 0

\* asyncio.as_completed(tasks): the next future is the next task to finish;
\* 0 when the generator has to wait.
NextFinished(b) ==
    IF Taken(b) < Len(FinishedOf(b)) THEN FinishedOf(b)[Taken(b) + 1] ELSE 0

\* yield await finished: the generator yields the result of the task, or the
\* exception of the task is raised out of the generator, which ends it.
DispatchYield(b) ==
    /\ gen[b] = "running"
    /\ Taken(b) < Len(batches[b])
    /\ NextFinished(b) # 0
    /\ LET r == NextFinished(b) IN
       IF rtask[r][1] = "exception"
       THEN /\ gen' = [gen EXCEPT ![b] = "raised"]
            /\ UNCHANGED yielded
       ELSE /\ yielded' = [yielded EXCEPT ![b] = Append(@, rtask[r][2])]
            /\ UNCHANGED gen
    /\ UNCHANGED <<executors, response_queue, rtask, rmodule, rbatch, worker,
                   batches, completed, delivered>>

\* as_completed is exhausted: the generator ends.
DispatchEnd(b) ==
    /\ gen[b] = "running"
    /\ Taken(b) = Len(batches[b])
    /\ gen' = [gen EXCEPT ![b] = "exhausted"]
    /\ UNCHANGED <<executors, response_queue, rtask, rmodule, rbatch, worker,
                   batches, yielded, completed, delivered>>

\* One turn of the loop of responses(): get a response, yield it.
responses ==
    /\ response_queue # <<>>
    /\ delivered' = Append(delivered, Head(response_queue))
    /\ response_queue' = Tail(response_queue)
    /\ UNCHANGED <<executors, rtask, rmodule, rbatch, worker, batches, gen,
                   yielded, completed>>

SchedNext ==
    \/ /\ \E m \in ModuleNames : add_request(m)
       /\ UNCHANGED <<vars, gvars, ovars, hvars>>
    \/ /\ \E b \in Batches : \E ms \in ModuleLists(NumRequests) : dispatch(b, ms)
       /\ UNCHANGED <<vars, gvars, ovars, hvars>>
    \/ /\ \E r \in Requests : TaskStart(r)
       /\ UNCHANGED <<vars, gvars, ovars, hvars>>
    \/ /\ \E r \in Requests : TaskFinishRequest(r)
       /\ UNCHANGED <<vars, gvars, ovars, hvars>>
    \/ /\ \E b \in Batches : DispatchYield(b)
       /\ UNCHANGED <<vars, gvars, ovars, hvars>>
    \/ /\ \E b \in Batches : DispatchEnd(b)
       /\ UNCHANGED <<vars, gvars, ovars, hvars>>
    \/ /\ responses
       /\ UNCHANGED <<vars, gvars, ovars, hvars>>

SchedSpec == SchedInit /\ [][SchedNext]_allvars

SchedTypeOK ==
    /\ gen \in [Batches -> {"none", "running", "exhausted", "raised"}]
    /\ \A r \in Requests : rmodule[r] \in ModuleNames
    /\ Len(completed) <= NumRequests
    /\ Len(delivered) + Len(response_queue) <= NumRequests

\* ------------------------------------------------------------------ bounds
MaxNodes == 3
MaxCollected == 5
MaxCalls == 2

\* ------------------------------------ optimize_await_sequences, step by step
\* The steps of the graphs handed to the optimizer:
\*   a = await get_value(1)      b = await get_value(2)
\*   c = await get_value(3)      b = await get_value(a)
\*   x = query                   return a
\* <<"call_of", n>> is the call get_value(n) on the value of the name n.
OptShapes == {"a1", "b2", "c3", "ba", "sync", "return"}

OptNode(shape, next_node) ==
    CASE shape = "a1" -> ActionNode(<< <<"await_assign", "a", <<"call", 1>> >> >>, next_node)
      [] shape = "b2" -> ActionNode(<< <<"await_assign", "b", <<"call", 2>> >> >>, next_node)
      [] shape = "c3" -> ActionNode(<< <<"await_assign", "c", <<"call", 3>> >> >>, next_node)
      [] shape = "ba" -> ActionNode(<< <<"await_assign", "b", <<"call_of", "a">> >> >>, next_node)
      [] shape = "sync" -> ActionNode(<< <<"assign", "x", <<"name", "query">> >> >>, next_node)
      [] OTHER -> ReturnNode(<<"name", "a">>)

\* The graph of the steps shapes[1], shapes[2], ... in a row; the next of the
\* last step is last: None (0) or one of the steps, which closes a cycle.
\* Graph(None) is the graph without steps.
OptChain(shapes, last) ==
    Graph(IF shapes = <<>> THEN 0 ELSE 1,
          [i \in DOMAIN shapes |->
              OptNode(shapes[i], IF i < Len(shapes) THEN i + 1 ELSE last)])

OptGraphs ==
    UNION {{OptChain(sh, last) : last \in 0..Len(sh)} :
              sh \in SeqsUpTo(OptShapes, MaxNodes)}

OptInit ==
    /\ ExecutorAbsent
    /\ GraphAbsent
    /\ SchedulerAbsent
    /\ HasNextAbsent
    /\ ograph \in OptGraphs
    /\ obefore = ograph
    /\ ocur = 0
    /\ oseq = <<>>
    /\ opc = "idle"
    /\ ocalls = 0

\* optimize_await_sequences(graph) is called: head = graph.entry, seq = [],
\* cur = head.
OptCall ==
    /\ opc = "idle"
    /\ ocalls < MaxCalls
    /\ obefore' = ograph
    /\ ocur' = ograph.entry
    /\ oseq' = <<>>
    /\ opc' = "loop"
    /\ UNCHANGED <<ograph, ocalls>>

\* "while isinstance(cur, ActionNode)" and the pattern matches cur.source.
OptLoopGoesOn ==
    /\ ocur # 0
    /\ ograph.nodes[ocur].kind = "action"
    /\ AwaitAssignMatch(ograph.nodes[ocur].src)

\* One pass of the while loop: seq.append((cur, var, expr)); cur = cur.next.
\* The loop keeps no record of the nodes it has seen; the list seq is cut
\* off at MaxCollected entries here.
OptLoop ==
    /\ opc = "loop"
    /\ OptLoopGoesOn
    /\ Len(oseq) < MaxCollected
    /\ oseq' = Append(oseq, ocur)
    /\ ocur' = ograph.nodes[ocur].next
    /\ UNCHANGED <<ograph, obefore, opc, ocalls>>

\* A fused node that keeps the successor of the first node of the run.
FusedNodeNextOfFirst(g, seq, cur_node) ==
    ActionNode(CombinedSrc(g, seq), g.nodes[seq[1]].next)

\* new_node = ActionNode(combined_src, cur)
FusedNode(g, seq, cur_node) == ActionNode(CombinedSrc(g, seq), cur_node)

\* A pass that fuses the first two nodes of a run whose names differ and
\* leaves out the import line of the fused source.
OptFinishPairwise ==
    /\ opc = "loop"
    /\ ~OptLoopGoesOn
    /\ ograph' =
          IF Len(oseq) > 1
             /\ ograph.nodes[oseq[1]].src[1][2] # ograph.nodes[oseq[2]].src[1][2]
          THEN Graph(Len(ograph.nodes) + 1,
                     Append(ograph.nodes,
                            ActionNode(Tail(CombinedSrc(ograph, SubSeq(oseq, 1, 2))),
                                       ograph.nodes[oseq[2]].next)))
          ELSE ograph
    /\ opc' = "idle"
    /\ ocalls' = ocalls + 1
    /\ UNCHANGED <<obefore, ocur, oseq>>

\* The loop has ended: when more than one node was collected and their
\* variables are pairwise different, graph.entry becomes a new node with the
\* combined source and cur as its next; the graph is returned.
OptFinish ==
    /\ opc = "loop"
    /\ ~OptLoopGoesOn
    /\ LET vars_seq == [i \in DOMAIN oseq |-> ograph.nodes[oseq[i]].src[1][2]] IN
       ograph' =
          IF Len(oseq) > 1 /\ Distinct(vars_seq)
          THEN Graph(Len(ograph.nodes) + 1,
                     Append(ograph.nodes, FusedNode(ograph, oseq, ocur)))
          ELSE ograph
    /\ opc' = "idle"
    /\ ocalls' = ocalls + 1
    /\ UNCHANGED <<obefore, ocur, oseq>>

OptNext ==
    \/ /\ OptCall
       /\ UNCHANGED <<vars, gvars, svars, hvars>>
    \/ /\ OptLoop
       /\ UNCHANGED <<vars, gvars, svars, hvars>>
    \/ /\ OptFinish
       /\ UNCHANGED <<vars, gvars, svars, hvars>>

OptSpec == OptInit /\ [][OptNext]_allvars

\* ------------------------------------------------------------------ bounds
MaxElems == 3
MaxValue == 2
MaxPeeks == 3

\* ---------------------------------------------------------------- has_next
\* The value of context[name] is <<"iter", id>> for the iterator object
\* objs[id], a list (which is iterable but no iterator), or Unbound when the
\* name is not in the dict.  An iterator object is
\* <<"list_iterator", rest>>, made by iter(list), or <<"chain", head, id>>,
\* made by itertools.chain(head, objs[id]).
IterNames == {"it", "missing"}

Elems == {PyInt(v) : v \in 1..MaxValue}

\* next(objs[id]): the element and the objects afterwards, or StopIteration.
\* A chain yields from its head first and then from the iterator it wraps.
RECURSIVE IterNext(_, _)
IterNext(h, id) ==
    IF h[id][1] = "list_iterator"
    THEN IF h[id][2] = <<>>
         THEN [objs |-> h, stop |-> TRUE, value |-> PyNone]
         ELSE [objs |-> [h EXCEPT ![id] = <<"list_iterator", Tail(h[id][2])>>],
               stop |-> FALSE, value |-> Head(h[id][2])]
    ELSE IF h[id][2] # <<>>
         THEN [objs |-> [h EXCEPT ![id] = <<"chain", Tail(h[id][2]), h[id][3]>>],
               stop |-> FALSE, value |-> Head(h[id][2])]
         ELSE IterNext(h, h[id][3])

\* A has_next that does not put the element back.
ChainWithoutFirst(first_element, iterator) == <<"chain", <<>>, iterator>>

\* itertools.chain([first_element], iterator)
Chain(first_element, iterator) == <<"chain", <<first_element>>, iterator>>

HasNextInit ==
    /\ ExecutorAbsent
    /\ GraphAbsent
    /\ SchedulerAbsent
    /\ OptimizerAbsent
    /\ hinit \in SeqsUpTo(Elems, MaxElems)
    /\ objs = << <<"list_iterator", hinit>> >>
    /\ hctx \in {[n \in IterNames |-> IF n = "it" THEN v ELSE Unbound] :
                    v \in {<<"iter", 1>>, List(hinit)}}
    /\ hread = <<>>
    /\ hlast = [name |-> "", result |-> "none", nread |-> 0]
    /\ hcalls = 0

\* What has_next answers.
Answer(name, result) == [name |-> name, result |-> result, nread |-> Len(hread)]

\* The try block of has_next on the iterator objs[id], r being the outcome
\* of next(iterator).
HasNextTry(name, id, r) ==
    IF r.stop
    THEN /\ hlast' = Answer(name, "False")
         /\ UNCHANGED <<objs, hctx>>
    ELSE /\ objs' = Append(r.objs, Chain(r.value, id))
         /\ hctx' = [hctx EXCEPT ![name] = <<"iter", Len(objs) + 1>>]
         /\ hlast' = Answer(name, "True")

\* has_next(name, context): NameError when context.get(name) is None, False
\* when next() raises TypeError (no iterator) or StopIteration, else the
\* element is put back in front of the iterator and the answer is True.
has_next(name) ==
    /\ hcalls < MaxPeeks
    /\ hcalls' = hcalls + 1
    /\ IF hctx[name] = Unbound
       THEN /\ hlast' = Answer(name, "NameError")
            /\ UNCHANGED <<objs, hctx>>
       ELSE IF hctx[name][1] # "iter"
       THEN /\ hlast' = Answer(name, "False")
            /\ UNCHANGED <<objs, hctx>>
       ELSE HasNextTry(name, hctx[name][2], IterNext(objs, hctx[name][2]))
    /\ UNCHANGED <<hinit, hread>>

\* The reader takes r.value off the iterator.
ReadTaken(r) ==
    /\ ~r.stop
    /\ objs' = r.objs
    /\ hread' = Append(hread, r.value)

\* The code that called has_next reads the next element: next(context[name]).
ReadNext(name) ==
    /\ hctx[name] # Unbound
    /\ hctx[name][1] = "iter"
    /\ ReadTaken(IterNext(objs, hctx[name][2]))
    /\ UNCHANGED <<hctx, hinit, hlast, hcalls>>

HasNextNext ==
    \/ /\ \E n \in IterNames : has_next(n)
       /\ UNCHANGED <<vars, gvars, svars, ovars>>
    \/ /\ \E n \in IterNames : ReadNext(n)
       /\ UNCHANGED <<vars, gvars, svars, ovars>>

HasNextSpec == HasNextInit /\ [][HasNextNext]_allvars

\* =================================================================== claims
\* The entry (priority, counter, task) has left the waiting queue.
Popped(e) == e # NoEntry /\ e \notin waiting

\* A caller cancelled something, stop() was called, a task ended cancelled,
\* or a task was handed to enqueue twice.
Disturbed ==
    \/ nstops > 0
    \/ ncancels > 0
    \/ \E t \in Tasks : tstate[t] = Cancelled
    \/ \E f, g \in Futures : f # g /\ ftask[f] # 0 /\ ftask[f] = ftask[g]

\* C1: every future returned by enqueue has at most one outcome (value,
\* exception or cancellation) applied to it, whatever the interleaving of
\* enqueue, the run loops, the tasks, callers cancelling futures and stop().
C1_AtMostOneOutcome == \A f \in Futures : signals[f] <= 1

\* A caller cancelled the future of a task that was then awaited to its end
\* and cleaned up by the run loop.
C1_Witness ==
    \E f \in Futures :
        /\ fby[f] = "caller"
        /\ wasRun[ftask[f]]
        /\ TaskDone(ftask[f])
        /\ tstate[ftask[f]] # Cancelled
        /\ Popped(fentry[f])
        /\ \A l \in Loops : cur[l] # fentry[f]

\* C2: as long as stop() is not called, nothing is cancelled and no task is
\* enqueued twice, every future returned by enqueue is eventually resolved.
C2_EventuallyResolved ==
    \A f \in Futures : (fstate[f] = Pending) ~> (FutureDone(f) \/ Disturbed)

\* All the futures were resolved by the run loop in an undisturbed run.
C2_Witness ==
    ~Disturbed /\ \A f \in Futures : fby[f] = "run" /\ wasRun[ftask[f]]

\* C3: a task whose work raises an exception does not end the run loop that
\* awaits it: the loop returns to the waiting queue, which still holds the
\* remaining entries, and the exception goes to that task's future only.
C3_ExceptionKeepsLoop ==
    [][\A l \in Loops :
        (/\ pc[l] = "awaiting"
         /\ ~mustCancel[l]
         /\ tstate[cur[l][3]][1] = "exception"
         /\ pc'[l] # "awaiting")
        => /\ pc'[l] = "idle"
           /\ waiting' = waiting
           /\ \A m \in Loops : m # l => pc'[m] = pc[m]
           /\ \A f \in Futures :
                fstate'[f] # fstate[f]
                => f = task_futures[cur[l][3]] /\ fstate'[f] = tstate[cur[l][3]]]_vars

\* A run loop recorded a task's exception and went on to resolve the future
\* of a task queued behind it.
C3_Witness ==
    \E f, g \in Futures :
        /\ fstate[f][1] = "exception" /\ fby[f] = "run" /\ wasRun[ftask[f]]
        /\ fby[g] = "run" /\ wasRun[ftask[g]]
        /\ ftask[f] # ftask[g]
        /\ fentry[f][1] = fentry[g][1] /\ fentry[f][2] < fentry[g][2]

\* C4: when the task that the current run loop awaits ends cancelled, the
\* loop keeps running (it returns to the waiting queue).
C4_CancellationKeepsLoop ==
    [][\A l \in Loops :
        (/\ pc[l] = "awaiting"
         /\ executor_task = l
         /\ ~mustCancel[l]
         /\ tstate[cur[l][3]] = Cancelled
         /\ pc'[l] # "awaiting")
        => pc'[l] = "idle"]_vars

\* C5: an entry that leaves the waiting queue is the smallest
\* (priority, counter) of the entries waiting at that moment.
C5_PopsMinimum ==
    [][\A e \in waiting :
        e \notin waiting' => \A x \in waiting : x = e \/ EntryLess(e, x)]_vars

\* A loop awaits an entry that overtook an earlier, less urgent entry that is
\* still waiting.
C5_Witness ==
    \E l \in Loops, e \in waiting :
        pc[l] = "awaiting" /\ cur[l][1] < e[1] /\ cur[l][2] > e[2]

\* The task of future f was handed to enqueue only that once.
EnqueuedOnce(f) == \A h \in Futures : h # f => ftask[h] # ftask[f]

\* C6: of two different tasks enqueued once each with the same priority, the
\* one enqueued first is popped first and has its future resolved first.
C6_FifoSamePriority ==
    \A f, g \in Futures :
        (/\ fentry[f] # NoEntry /\ fentry[g] # NoEntry
         /\ fentry[f][1] = fentry[g][1]
         /\ fentry[f][2] < fentry[g][2]
         /\ EnqueuedOnce(f) /\ EnqueuedOnce(g))
        => /\ Popped(fentry[g]) => Popped(fentry[f])
           /\ (fby[g] = "run") => FutureDone(f)

\* C7: a future resolved by the executor on the completion of its task holds
\* the end state of that task: cancelled, the exception raised, or the value.
C7_OutcomeMatchesTask ==
    \A f \in Futures :
        fby[f] \in {"run", "enqueue"} => fstate[f] = tstate[ftask[f]]

\* The executor has passed on a value, an exception and a cancellation.
C7_Witness ==
    \E f, g, h \in Futures :
        /\ fby[f] = "run" /\ fstate[f][1] = "value"
        /\ fby[g] = "run" /\ fstate[g][1] = "exception"
        /\ fby[h] \in {"run", "enqueue"} /\ fstate[h] = Cancelled

\* C8: enqueue of a task that is already done returns a future resolved with
\* the task's outcome and leaves the waiting queue, the task counter and the
\* task -> future map as they were.
C8_EnqueueDoneFrame ==
    [][(/\ nfutures' = nfutures + 1
        /\ tstate'[ftask'[nfutures']][1] \in {"cancelled", "exception", "value"})
        => /\ fstate'[nfutures'] = tstate'[ftask'[nfutures']]
           /\ waiting' = waiting
           /\ task_counter' = task_counter
           /\ task_futures' = task_futures]_vars

\* A done task was enqueued while another task was waiting.
C8_Witness ==
    \E f \in Futures :
        fby[f] = "enqueue" /\ waiting # {} /\ \E t \in Tasks : task_futures[t] # 0

\* C9: a task cancelled while it is in the waiting queue and was never
\* popped is never moved to the running queue (its work is not run), and
\* the run loop resolves its future only as cancelled.
C9_CancelledBeforeStartNeverRun ==
    \A t \in Tasks :
        cancelWaiting[t]
        => /\ ~wasRun[t]
           /\ \A f \in Futures :
                ftask[f] = t /\ fby[f] = "run" => fstate[f] = Cancelled

\* C10: once stop() has been called, is_healthy() is false in every later
\* state, also after later enqueue calls.
C10_UnhealthyForever == nstops > 0 => ~IsHealthy

\* C10 as amended: after stop() is_healthy() is false until the next enqueue.
C10_UnhealthyUntilEnqueue == stopped => ~IsHealthy

\* stop() was called while the loop awaited a task, and the loop task has
\* not ended yet.
C10_Witness ==
    stopped /\ nfutures > 0 /\ \E l \in Loops : pc[l] = "awaiting"

\* ---------------------------------------------------- claims on VScheduler
\* The generator of batch b has ended and every task of the batch is done.
BatchOver(b) ==
    /\ gen[b] \in {"exhausted", "raised"}
    /\ \A i \in DOMAIN batches[b] : RequestDone(batches[b][i])

\* The number of times the response of request r was handed to a consumer,
\* by the generator of a dispatch() batch or by responses().
Deliveries(r) ==
    Cardinality({k \in DOMAIN delivered : delivered[k] = Resp(r)})
    + Cardinality({bk \in Batches \X (1..NumRequests) :
                      /\ bk[2] <= Len(yielded[bk[1]])
                      /\ yielded[bk[1]][bk[2]] = Resp(r)})

\* C11: a dispatch() batch of K requests for handlers that produce a response
\* yields exactly K responses, one for each request and carrying its id.
C11_DispatchComplete ==
    \A b \in Batches :
        (BatchOver(b) /\ \A i \in DOMAIN batches[b] :
                            rmodule[batches[b][i]] \in {"respond", "stream"})
        => /\ Len(yielded[b]) = Len(batches[b])
           /\ \A i \in DOMAIN batches[b] :
                 Cardinality({k \in DOMAIN yielded[b] :
                                 yielded[b][k] = Resp(batches[b][i])}) = 1

\* C12: no response is handed to a consumer twice.
C12_DeliveredOnce == \A r \in Requests : Deliveries(r) <= 1

\* C13: no task is ever created for a request that names a module that is
\* not registered.
C13_UnregisteredRejected ==
    \A r \in Requests : rtask[r] # NotCreated => ~Unregistered(rmodule[r])

\* C14: when a dispatch() batch is over, the response of every request of the
\* batch whose execution succeeded has been yielded.
C14_FailureIsolated ==
    \A b \in Batches :
        BatchOver(b)
        => \A i \in DOMAIN batches[b] :
              rtask[batches[b][i]][1] = "value"
              => \E k \in DOMAIN yielded[b] : yielded[b][k] = rtask[batches[b][i]][2]

\* C19: the k-th response a dispatch() batch yields is the result of the k-th
\* task of the batch to finish.
C19_CompletionOrder ==
    \A b \in Batches :
        \A k \in DOMAIN yielded[b] :
            /\ k <= Len(FinishedOf(b))
            /\ rtask[FinishedOf(b)[k]] = Returned(yielded[b][k])

\* A batch has yielded the response of its second request before the
\* response of its first request.
C19_Witness ==
    \E b \in Batches :
        /\ Len(batches[b]) >= 2
        /\ Len(yielded[b]) >= 2
        /\ yielded[b][1] = Resp(batches[b][2])
        /\ yielded[b][2] = Resp(batches[b][1])
\* ------------------------------------------------- claims on GraphExecutor
\* The traversal of input inp alone, in a dict seeded from the base bindings.
SoloWalk(inp) == Walk(graph, graph.entry, NewRunCtx(BaseCtx, inp))

\* The result the traversal of inp produces: the yielded values if any, else
\* the returned value.
SoloResult(inp) ==
    IF Truthy(SoloWalk(inp).d[Stream]) THEN SoloWalk(inp).d[Stream]
    ELSE SoloWalk(inp).value

RunEnded(th) == rpc[th] \in {"done", "raised"}

\* What run call th reported for its i-th input: the i-th element of the
\* returned list, or the returned value itself for a batch of one input.
ReportedFor(th, i) ==
    IF ~IsExc(retval[th]) /\ Len(inputs[th]) = 1 THEN retval[th]
    ELSE IF retval[th][1] = "list" /\ i <= Len(retval[th][2]) THEN retval[th][2][i]
    ELSE Unbound

\* C15: when the traversal of one input of a batch raises, run still reports
\* the result of every other input of the batch.
C15_ErrorIsolated ==
    \A th \in Runs :
        (RunEnded(th) /\ \E k \in DOMAIN inputs[th] : SoloWalk(inputs[th][k]).end = "raise")
        => \A i \in DOMAIN inputs[th] :
              SoloWalk(inputs[th][i]).end = "return"
              => ReportedFor(th, i) = SoloResult(inputs[th][i])

\* C16: run(inputs) returns a list with exactly one result per input, in
\* input order.
C16_OneResultPerInput ==
    \A th \in Runs :
        rpc[th] = "done"
        => /\ retval[th][1] = "list"
           /\ Len(retval[th][2]) = Len(inputs[th])
           /\ \A i \in DOMAIN inputs[th] :
                 SoloWalk(inputs[th][i]).end = "return"
                 => retval[th][2][i] = SoloResult(inputs[th][i])

\* C17: a run call sees, apart from the base bindings, only the names bound
\* on behalf of its own current input, and the base bindings never change.
C17_NoSharedEnvironment ==
    /\ env[0] = BaseCtx
    /\ \A th \in Runs :
          rpc[th] = "walk"
          => \A n \in Names : env[ctxref[th]][n] # BaseCtx[n] => n \in wrote[th]

\* Two run calls are in the middle of a traversal, one of them on its second
\* input or later, and one has rebound the base binding that the other still
\* sees unchanged.
C17_Witness ==
    \E t1, t2 \in Runs :
        /\ t1 # t2
        /\ rpc[t1] = "walk" /\ rpc[t2] = "walk"
        /\ idx[t1] > 1
        /\ "base" \in wrote[t1]
        /\ env[ctxref[t1]]["base"] # BaseCtx["base"]
        /\ "x" \in wrote[t2]
        /\ env[ctxref[t2]]["base"] = BaseCtx["base"]

\* C18: for every input during whose traversal a YieldNode executed, run
\* reports the yielded values, in the order the YieldNodes executed.
C18_YieldedValuesReported ==
    \A th \in Runs :
        rpc[th] = "done"
        => \A i \in DOMAIN inputs[th] :
              ylog[th][i] # <<>> => ReportedFor(th, i) = List(ylog[th][i])

\* The node made by optimize_await_sequences.
IsFused(n) ==
    /\ n.kind = "action"
    /\ Len(n.src) > 1
    /\ n.src[1] = <<"import", "asyncio">>

\* C20: after the fused node executed, every variable of the run it replaces
\* is bound to the result of its own call, and the traversal is at the
\* successor of the fused node.
C20_FusedEquivalent ==
    \A th \in Runs :
        (lastexec[th].node # 0 /\ IsFused(graph.nodes[lastexec[th].node]))
        => LET n == graph.nodes[lastexec[th].node] IN
           /\ lastexec[th].raised = ""
           /\ current_node[th] = n.next
           /\ \A i \in DOMAIN n.src[3][2] :
                 env[ctxref[th]][n.src[3][2][i]] = AwaitValue(n.src[2][3][2][i])

\* C25: two run calls on one GraphExecutor that were given the same inputs
\* end the same way, with the same results in the same order.
C25_Deterministic ==
    \A t1, t2 \in Runs :
        (RunEnded(t1) /\ RunEnded(t2) /\ inputs[t1] = inputs[t2])
        => rpc[t1] = rpc[t2] /\ retval[t1] = retval[t2]

\* Two run calls were given the same two different inputs and both returned
\* the list of the two results.
C25_Witness ==
    \E t1, t2 \in Runs :
        /\ t1 # t2
        /\ rpc[t1] = "done" /\ rpc[t2] = "done"
        /\ inputs[t1] = inputs[t2]
        /\ Len(inputs[t1]) = 2
        /\ inputs[t1][1] # inputs[t1][2]
        /\ retval[t1][1] = "list"
        /\ Len(retval[t1][2]) = 2
        /\ retval[t1] = retval[t2]

\* ------------------------------------------- LMExecutor: statistics, stop
\* get_stats()
waiting_tasks == Cardinality(waiting)

running_tasks == Cardinality(running)

pending_futures == Cardinality({t \in Tasks : task_futures[t] # 0})

\* The futures enqueue has returned so far.
ReturnedFutures == 1..nfutures

\* Every future enqueue returned was resolved by the run loop.
AllResolvedByRun ==
    /\ nfutures > 0
    /\ \A f \in ReturnedFutures : FutureDone(f) /\ fby[f] = "run"

\* This step is the run loop resolving future f.
ResolvedNow(f) == fstate[f] = Pending /\ fstate'[f] # Pending /\ fby'[f] = "run"

\* After the step the task of f is neither in the running queue nor mapped to f.
RemovedAfter(f) ==
    /\ \A e \in running' : e[3] # ftask[f]
    /\ task_futures'[ftask[f]] # f

\* C26, first part: once the future of every enqueued task has been
\* resolved by the run loop, get_stats() reports no waiting task, no
\* running task and no pending future.
C26_StatsZero ==
    AllResolvedByRun => waiting_tasks = 0 /\ running_tasks = 0 /\ pending_futures = 0

\* C26, second part: when the run loop resolves a future, the task is out
\* of the running queue and out of the task-to-future map by then.
C26_RemovedStep == \A f \in Futures : ResolvedNow(f) => RemovedAfter(f)

\* C26: once the run loop has resolved the future of every enqueued task the
\* statistics report waiting_tasks = 0, running_tasks = 0 and
\* pending_futures = 0, and a task leaves the running queue and the
\* task-to-future map no later than the step that resolves its future.
C26_StatsAfterCompletion == [](C26_StatsZero) /\ [][C26_RemovedStep]_vars

\* C28: at most one task is in the running queue in every reachable state.
C28_AtMostOneRunning == running_tasks <= 1

\* C29: right after stop() returns, every future returned by an earlier
\* enqueue is done and the task-to-future map is empty.
C29_StopLeavesNoAwaiter ==
    [][nstops' = nstops + 1 =>
          /\ \A f \in ReturnedFutures : fstate'[f] # Pending
          /\ \A t \in Tasks : task_futures'[t] = 0]_vars

\* ------------------------------------ claims on optimize_await_sequences
\* The i-th step on the way from the entry of g along next: 0 when the way
\* has ended before.
RECURSIVE PathNode(_, _)
PathNode(g, i) ==
    IF i = 1 THEN g.entry
    ELSE LET before == PathNode(g, i - 1) IN
         IF before = 0 THEN 0 ELSE g.nodes[before].next

\* Step n of g is an ActionNode whose source is an await assignment.
IsAwaitStep(g, n) ==
    /\ n # 0
    /\ g.nodes[n].kind = "action"
    /\ g.nodes[n].src[1][1] = "await_assign"

\* The length of the maximal run of await assignments that starts at the
\* entry of g; a run longer than the graph has steps goes round a cycle.
RunLen(g) ==
    LET most == Len(g.nodes) + 1 IN
    CHOOSE k \in 0..most :
        /\ \A i \in 1..k : IsAwaitStep(g, PathNode(g, i))
        /\ (k = most \/ ~IsAwaitStep(g, PathNode(g, k + 1)))

\* The name bound and the call awaited by the i-th step of the run.
RunName(g, i) == g.nodes[PathNode(g, i)].src[1][2]
RunCall(g, i) == g.nodes[PathNode(g, i)].src[1][3]

\* The names a call expression refers to.
CallNames(c) == IF c[1] = "call_of" THEN {c[2]} ELSE {}

NamesPairwiseDistinct(g) ==
    \A i, j \in 1..RunLen(g) : i # j => RunName(g, i) # RunName(g, j)

\* A call of the optimizer has returned; it fused when the entry changed.
CallReturned == opc = "idle" /\ ocalls >= 1
Fused == ograph.entry # obefore.entry

\* C21: the optimizer never fuses a run in which the call of a later step
\* refers to a name bound by an earlier step of the run.
C21_FusesOnlyIndependent ==
    (CallReturned /\ Fused)
    => \A i, j \in 1..RunLen(obefore) :
          i < j => RunName(obefore, i) \notin CallNames(RunCall(obefore, j))

\* C22: the optimizer fuses exactly when the maximal run of await
\* assignments at the entry has two or more steps with pairwise distinct
\* names; in every other case it leaves the graph as it was.
C22_FusionExactlyWhen ==
    CallReturned
    => /\ Fused <=> (RunLen(obefore) >= 2 /\ NamesPairwiseDistinct(obefore))
       /\ ~Fused => ograph = obefore

\* A run of three steps with three names was fused.
C22_Witness ==
    /\ CallReturned
    /\ Fused
    /\ RunLen(obefore) = 3
    /\ IsFused(ograph.nodes[ograph.entry])

\* C23: when the optimizer fuses, the new entry is one fused step whose
\* successor is the first step after the run, or none when the run ends
\* the graph.
C23_FusedSuccessor ==
    (CallReturned /\ Fused)
    => /\ IsFused(ograph.nodes[ograph.entry])
       /\ ograph.nodes[ograph.entry].next = PathNode(obefore, RunLen(obefore) + 1)
       /\ \A n \in DOMAIN obefore.nodes : ograph.nodes[n] = obefore.nodes[n]

\* A run of two steps followed by a synchronous step was fused, and the fused
\* step is followed by the synchronous step.
C23_Witness ==
    /\ CallReturned
    /\ Fused
    /\ RunLen(obefore) = 2
    /\ ograph.nodes[ograph.entry].next = 3
    /\ obefore.nodes[3].kind = "action"
    /\ obefore.nodes[3].src[1][1] = "assign"

\* C24: a second call of the optimizer on the graph the first call returned
\* changes neither the entry nor a source nor an edge.
C24_Idempotent == (opc = "idle" /\ ocalls = 2) => ograph = obefore

\* The first call fused and the second call has returned.
C24_Witness ==
    /\ opc = "idle"
    /\ ocalls = 2
    /\ ograph.entry # 0
    /\ IsFused(ograph.nodes[ograph.entry])
    /\ Len(ograph.nodes[ograph.entry].src[3][2]) = 3

\* C30: while it collects the run the optimizer follows no step twice.  The
\* loop goes on or ends by cur alone, so on a finite graph this is the same
\* as: the loop ends.
C30_NoStepTwice == \A i, j \in DOMAIN oseq : i # j => oseq[i] # oseq[j]

\* ------------------------------------------------------ claims on has_next
\* list(objs[id]): the elements a reader gets from the iterator from now on.
RECURSIVE Remaining(_, _)
RECURSIVE RemainingAfter(_, _)
RemainingAfter(r, id) ==
    IF r.stop THEN <<>> ELSE <<r.value>> \o Remaining(r.objs, id)
Remaining(h, id) == RemainingAfter(IterNext(h, id), id)

====
